---- MODULE Spec2Model ----
(***************************************************************************)
(* Model of videocore::TCPThroughputAdaptation                             *)
(* (src/stream/TCPThroughputAdaptation.cpp).                               *)
(*                                                                         *)
(* Time.  The steady clock is counted in units of 1/TicksPerSecond second. *)
(* A time point is stored as its age, i.e. the distance from the current   *)
(* clock reading back to it: prev is now() - prev and m_previousTurndown   *)
(* is now() - m_previousTurndown.  The code reads time points only through *)
(* such differences (lines 68, 69).  The age of m_previousTurndown         *)
(* saturates at TurndownCap, one second above the debounce interval: the   *)
(* code only compares the whole-second age with 10 (line 102).             *)
(*                                                                         *)
(* Numbers.  Throughput values are floats in the code.  Finite values are  *)
(* modelled by integers (bytes per second, rounded down), the IEEE values  *)
(* produced by a division by a zero elapsed time by NaN and Inf.  vec and  *)
(* m_previousVector are kept in tenths (-10 .. 10).                        *)
(***************************************************************************)
EXTENDS Integers, Sequences, FiniteSets, TLC

\* ---------------------------------------------------------------- bounds
\* resolution of the modelled clock (units per second)
TicksPerSecond == 2
\* concurrent model: producer threads, calls per kind, loop iterations
NumProducers == 2
MaxCalls == 2
MaxTicks == 2
\* engine model: producer calls, loop iterations
MaxEngineCalls == 4
MaxEngineTicks == 3
\* window model: pending buffer samples, loop iterations (the latter must
\* exceed m_bwSampleCount)
MaxPending == 2
MaxWindowTicks == 32

\* ------------------------------------------------------- program constants
kPivotSamples == 5
m_bwSampleCount == 30
DebounceSeconds == 10
TickPeriodSeconds == 5
NaN == -1
Inf == -2

SentValues == {0, 50}
BufferValues == {0, 1, 2}
Producers == 1..NumProducers
\* owners of a std::mutex
Free == << "free" >>
Loop == << "loop" >>
Producer(p) == << "producer", p >>

TurndownCap == (DebounceSeconds + 1) * TicksPerSecond
TickPeriod == TickPeriodSeconds * TicksPerSecond

VARIABLES
    m_sentSamples,        \* std::vector<size_t>, pending sent-byte samples
    m_bufferSizeSamples,  \* std::vector<size_t>, pending buffer-depth samples
    m_bwSamples,          \* std::deque<float>, most recent first
    m_turnSamples,        \* std::deque<float>, most recent first
    m_previousVector,     \* float, in tenths
    m_hasFirstTurndown,   \* bool
    m_previousTurndown,   \* time point, as an age (see above)
    m_exiting,            \* flag read by the loop, set by the destructor
    m_callback,           \* "null" or "cb", the registered callback
    m_sentMutex,          \* owner of the mutex: Free, Loop or Producer(p)
    m_buffMutex,
    l_pc,                 \* position of sampleThread
    prev,                 \* local of sampleThread, as an age
    diff,                 \* local: now - prev, in clock units
    previousTurndownDiff, \* local: whole seconds since m_previousTurndown
    detectedBytesPerSec,  \* local
    direction,            \* value of vec after the classification (line 111)
    vec,                  \* local, in tenths
    turnAvg,              \* local
    notified,             \* the waiting loop has been notified through m_cond
    d_pc,                 \* position of the destructor
    p_pc, p_kind, p_arg,  \* producers: position, method called, argument
    ticks,                \* number of loop iterations started
    calls,                \* number of producer calls counted against a bound
    invoked,              \* arguments the callback got in this iteration, or << >>
    sentHist, sentSeen,   \* history: sent samples appended / read by ticks
    buffHist, buffSeen,   \* history: buffer samples appended / read by ticks
    drainAccepted,        \* history: some tick classified direction +1
    exitCalls             \* history: callback invocations begun with m_exiting set

vars == << m_sentSamples, m_bufferSizeSamples, m_bwSamples, m_turnSamples,
           m_previousVector, m_hasFirstTurndown, m_previousTurndown, m_exiting,
           m_callback, m_sentMutex, m_buffMutex, l_pc, prev, diff,
           previousTurndownDiff, detectedBytesPerSec, direction, vec, turnAvg,
           notified, d_pc, p_pc, p_kind, p_arg, ticks, calls, invoked,
           sentHist, sentSeen, buffHist, buffSeen, drainAccepted, exitCalls >>

\* ------------------------------------------------------ float arithmetic
\* mutant: every sample counts one byte more
RECURSIVE SumSeqPlusOne(_)
SumSeqPlusOne(s) ==
    IF s = << >> THEN 0 ELSE Head(s) + 1 + SumSeqPlusOne(Tail(s))

RECURSIVE SumSeq(_)
SumSeq(s) == IF s = << >> THEN 0 ELSE Head(s) + SumSeq(Tail(s))

Min(a, b) == IF a < b THEN a ELSE b

\* float(totalSent) / timeDelta (line 83); d is the elapsed time in clock units
Divide(totalSent, d) ==
    IF d = 0 THEN (IF totalSent = 0 THEN NaN ELSE Inf)
    ELSE (totalSent * TicksPerSecond) \div d

\* m_bwWeights[i-1] in 1/10000 (lines 38-41): 0.75^i / v, v close to 4
RECURSIVE Weight(_)
Weight(i) == IF i = 1 THEN 2500 ELSE (Weight(i - 1) * 3) \div 4

\* sum of float terms s[i] * w(i): NaN and Inf propagate
RECURSIVE WeightedSum(_, _)
WeightedSum(s, i) ==
    IF i > Len(s) THEN 0 ELSE s[i] * Weight(i) + WeightedSum(s, i + 1)

\* avg of lines 92-94
Average(bw) ==
    IF \E i \in 1..Len(bw) : bw[i] = NaN THEN NaN
    ELSE IF \E i \in 1..Len(bw) : bw[i] = Inf THEN Inf
    ELSE WeightedSum(bw, 1) \div 10000

\* turnAvg of lines 129-132, for a non-empty window
TurnAverage(turn) ==
    IF \E i \in 1..Len(turn) : turn[i] = NaN THEN NaN
    ELSE IF \E i \in 1..Len(turn) : turn[i] = Inf THEN Inf
    ELSE SumSeq(turn) \div Len(turn)

\* tan(k * pi / 20) / 3 in 1/1000, k = 1..9: atan(3 a^2) / (pi/2) >= k/10
\* iff a^2 >= SlopeSteps[k]
SlopeSteps == << 53, 108, 170, 242, 333, 459, 654, 1026, 2105 >>

\* mutant: the magnitude is not raised to 0.1
MagnitudeUnfloored(det, avg, tAvg) ==
    IF det = NaN \/ avg = NaN \/ tAvg = NaN THEN 10
    ELSE IF det = Inf \/ avg = Inf THEN 10
    ELSE IF tAvg = Inf THEN 0
    ELSE IF tAvg = 0 THEN 10
    ELSE LET n == (det - avg) * (det - avg)
             d == tAvg * tAvg
         IN  Cardinality({j \in 1..9 : n * 1000 >= SlopeSteps[j] * d})

\* std::min(1.f, std::max(atanf(slope) / kPI_2, 0.1f)) in tenths, rounded
\* down, for a = (det - avg) / tAvg (lines 134-137).  A NaN passes std::max
\* and is replaced by 1.f in std::min; an infinite slope gives atanf = pi/2.
Magnitude(det, avg, tAvg) ==
    IF det = NaN \/ avg = NaN \/ tAvg = NaN THEN 10
    ELSE IF det = Inf \/ avg = Inf THEN 10
    ELSE IF tAvg = Inf THEN 1
    ELSE IF tAvg = 0 THEN 10
    ELSE LET n == (det - avg) * (det - avg)
             d == tAvg * tAvg
             k == Cardinality({j \in 1..9 : n * 1000 >= SlopeSteps[j] * d})
         IN  IF k < 1 THEN 1 ELSE k

\* ------------------------------------------------------------ the engine
Front(s) == s[1]
Back(s) == s[Len(s)]

\* mutant: the size test is off by one
PushFrontLate(s, x, cap) ==
    LET t == << x >> \o s
    IN  IF Len(t) > cap + 1 THEN SubSeq(t, 1, Len(t) - 1) ELSE t

\* push_front followed by one pop_back when the size exceeds cap
\* (lines 88-91, 113-116, 120-123)
PushFront(s, x, cap) ==
    LET t == << x >> \o s
    IN  IF Len(t) > cap THEN SubSeq(t, 1, Len(t) - 1) ELSE t

\* duration_cast<seconds>(now - m_previousTurndown).count() (line 69)
WholeSeconds(age) == age \div TicksPerSecond

\* mutant: the debounce comparison is reversed
ClassifyReversedDebounce(buf, hasFirst, ptd) ==
    IF Back(buf) = 0 /\ (~hasFirst \/ ptd < DebounceSeconds) THEN 1
    ELSE IF Back(buf) > Front(buf) THEN -1
    ELSE 0

\* mutant: m_hasFirstTurndown is not consulted
ClassifyWithoutFlag(buf, hasFirst, ptd) ==
    IF Back(buf) = 0 /\ ptd > DebounceSeconds THEN 1
    ELSE IF Back(buf) > Front(buf) THEN -1
    ELSE 0

\* mutant: the empty test reads the first sample instead of the last
ClassifyFrontEmpty(buf, hasFirst, ptd) ==
    IF Front(buf) = 0 /\ (~hasFirst \/ ptd > DebounceSeconds) THEN 1
    ELSE IF Back(buf) > Front(buf) THEN -1
    ELSE 0

\* lines 102-110: the value of vec after the classification
Classify(buf, hasFirst, ptd) ==
    IF Back(buf) = 0 /\ (~hasFirst \/ ptd > DebounceSeconds) THEN 1
    ELSE IF Back(buf) > Front(buf) THEN -1
    ELSE 0

\* line 99
BufferDelta(buf) == Back(buf) - Front(buf)

\* mutant: the reversal trigger requires a positive direction
PivotWindowStrict(turn, prevVec, dir, bwFront, det, buf) ==
    LET t1 == IF prevVec < 0 /\ dir > 0
              THEN PushFront(turn, bwFront, kPivotSamples) ELSE turn
    IN  IF BufferDelta(buf) < 0 /\ Back(buf) > 0
        THEN PushFront(t1, det, kPivotSamples) ELSE t1

\* mutant: the second trigger is tested only when the first has not fired
PivotWindowExclusive(turn, prevVec, dir, bwFront, det, buf) ==
    IF prevVec < 0 /\ dir >= 0
    THEN PushFront(turn, bwFront, kPivotSamples)
    ELSE IF BufferDelta(buf) < 0 /\ Back(buf) > 0
         THEN PushFront(turn, det, kPivotSamples) ELSE turn

\* lines 112-124: the pivot window after the two triggers
PivotWindow(turn, prevVec, dir, bwFront, det, buf) ==
    LET t1 == IF prevVec < 0 /\ dir >= 0
              THEN PushFront(turn, bwFront, kPivotSamples) ELSE turn
    IN  IF BufferDelta(buf) < 0 /\ Back(buf) > 0
        THEN PushFront(t1, det, kPivotSamples) ELSE t1

\* mutant: an empty pivot window gives the smallest magnitude
SynthesizeFloorWhenEmpty(dir, turn, det, avg) ==
    IF Len(turn) > 0
    THEN dir * Magnitude(det, avg, TurnAverage(turn))
    ELSE dir

\* lines 126-142: vec in tenths
Synthesize(dir, turn, det, avg) ==
    IF Len(turn) > 0
    THEN dir * Magnitude(det, avg, TurnAverage(turn))
    ELSE dir * 10

\* mutant: line 144 is executed by a tick without buffer samples too
ComputeResetsVector(d, ptd) ==
    LET det == Divide(SumSeq(m_sentSamples), d)
        bw  == PushFront(m_bwSamples, det, m_bwSampleCount)
        avg == Average(bw)
        buf == m_bufferSizeSamples
    IN  /\ detectedBytesPerSec' = det
        /\ m_bwSamples' = bw
        /\ IF buf = << >>
           THEN /\ direction' = 0
                /\ vec' = 0
                /\ turnAvg' = 0
                /\ m_previousVector' = 0
                /\ UNCHANGED << m_turnSamples, m_hasFirstTurndown,
                                m_previousTurndown, drainAccepted >>
           ELSE LET dir  == Classify(buf, m_hasFirstTurndown, ptd)
                    turn == PivotWindow(m_turnSamples, m_previousVector, dir,
                                        Front(bw), det, buf)
                    v    == Synthesize(dir, turn, det, avg)
                IN  /\ direction' = dir
                    /\ m_previousTurndown' =
                          IF dir = -1 THEN 0 ELSE m_previousTurndown
                    /\ m_hasFirstTurndown' = (m_hasFirstTurndown \/ dir = -1)
                    /\ m_turnSamples' = turn
                    /\ turnAvg' = IF Len(turn) > 0 THEN TurnAverage(turn) ELSE 0
                    /\ vec' = v
                    /\ m_previousVector' = v
                    /\ drainAccepted' = (drainAccepted \/ dir = 1)

\* lines 75-146 for elapsed time d and whole-second turndown age ptd: what
\* the iteration computes from the pending samples and the engine state
Compute(d, ptd) ==
    LET det == Divide(SumSeq(m_sentSamples), d)
        bw  == PushFront(m_bwSamples, det, m_bwSampleCount)
        avg == Average(bw)
        buf == m_bufferSizeSamples
    IN  /\ detectedBytesPerSec' = det
        /\ m_bwSamples' = bw
        /\ IF buf = << >>
           THEN /\ direction' = 0
                /\ vec' = 0
                /\ turnAvg' = 0
                /\ UNCHANGED << m_turnSamples, m_previousVector,
                                m_hasFirstTurndown, m_previousTurndown,
                                drainAccepted >>
           ELSE LET dir  == Classify(buf, m_hasFirstTurndown, ptd)
                    turn == PivotWindow(m_turnSamples, m_previousVector, dir,
                                        Front(bw), det, buf)
                    v    == Synthesize(dir, turn, det, avg)
                IN  /\ direction' = dir
                    /\ m_previousTurndown' =
                          IF dir = -1 THEN 0 ELSE m_previousTurndown
                    /\ m_hasFirstTurndown' = (m_hasFirstTurndown \/ dir = -1)
                    /\ m_turnSamples' = turn
                    /\ turnAvg' = IF Len(turn) > 0 THEN TurnAverage(turn) ELSE 0
                    /\ vec' = v
                    /\ m_previousVector' = v
                    /\ drainAccepted' = (drainAccepted \/ dir = 1)

\* mutant: the callback is invoked without the test of line 152
CallbackUntested ==
    /\ invoked' = << vec, turnAvg >>
    /\ exitCalls' = IF m_exiting THEN exitCalls + 1 ELSE exitCalls

\* lines 152-155.  m_callback is read without synchronisation: a test that
\* is concurrent with the assignment of line 57 sees the old or the new
\* value, as it does when the assignment is a single step before or after it.
Callback ==
    /\ invoked' = IF m_callback # "null" THEN << vec, turnAvg >> ELSE << >>
    /\ exitCalls' = IF m_exiting /\ m_callback # "null"
                    THEN exitCalls + 1 ELSE exitCalls

\* the steady clock advances by dt while the loop is not computing
Elapse(dt) ==
    /\ prev' = prev + dt
    /\ m_previousTurndown' = Min(m_previousTurndown + dt, TurndownCap)

\* --------------------------------------------------------- initial state
\* the state when the constructor (lines 35-46) has started the thread and
\* sampleThread has read prev (line 63), for a given age of the default
\* time point m_previousTurndown (the clock's epoch) and a given delay of
\* the thread before its first iteration
InitWith(epochAge, startDelay) ==
    /\ m_sentSamples = << >>
    /\ m_bufferSizeSamples = << >>
    /\ m_bwSamples = << >>
    /\ m_turnSamples = << >>
    /\ m_previousVector = 0
    /\ m_hasFirstTurndown = FALSE
    /\ m_previousTurndown = epochAge
    /\ m_exiting = FALSE
    /\ m_callback = "null"
    /\ m_sentMutex = Free
    /\ m_buffMutex = Free
    /\ l_pc = "while"
    /\ prev = startDelay
    /\ diff = 0
    /\ previousTurndownDiff = 0
    /\ detectedBytesPerSec = 0
    /\ direction = 0
    /\ vec = 0
    /\ turnAvg = 0
    /\ notified = FALSE
    /\ d_pc = "idle"
    /\ p_pc = [p \in Producers |-> "idle"]
    /\ p_kind = [p \in Producers |-> "sent"]
    /\ p_arg = [p \in Producers |-> 0]
    /\ ticks = 0
    /\ calls = 0
    /\ invoked = << >>
    /\ sentHist = << >>
    /\ sentSeen = << >>
    /\ buffHist = << >>
    /\ buffSeen = << >>
    /\ drainAccepted = FALSE
    /\ exitCalls = 0

\* the clock's epoch lies further back than the debounce interval and the
\* thread runs at once
Init == InitWith(TurndownCap, 0)

\* any age of the epoch, with or without a delay of the first iteration
InitEngine == \E e \in {0, TurndownCap} : \E d \in {0, 1} : InitWith(e, d)

threadVars == << m_exiting, notified, d_pc, p_pc, p_kind, p_arg >>
histVars == << sentHist, sentSeen, buffHist, buffSeen >>

\* ------------------------------------------- the engine, one step per tick
\* Every access of sampleThread to the samples and to the engine state lies
\* between the two lock() calls and the two unlock() calls, so an iteration
\* is taken in two steps here and a producer call in one.

\* addSentBytesSample (lines 170-176)
EAddSent(v) ==
    /\ l_pc = "while"
    /\ calls < MaxEngineCalls
    /\ calls' = calls + 1
    /\ m_sentSamples' = Append(m_sentSamples, v)
    /\ UNCHANGED << m_bufferSizeSamples, m_bwSamples, m_turnSamples,
                    m_previousVector, m_hasFirstTurndown, m_previousTurndown,
                    m_callback, m_sentMutex, m_buffMutex, l_pc, prev, diff,
                    previousTurndownDiff, detectedBytesPerSec, direction, vec,
                    turnAvg, ticks, invoked, exitCalls, drainAccepted, threadVars,
                    histVars >>

\* addBufferSizeSample (lines 163-169)
EAddBuffer(v) ==
    /\ l_pc = "while"
    /\ calls < MaxEngineCalls
    /\ calls' = calls + 1
    /\ m_bufferSizeSamples' = Append(m_bufferSizeSamples, v)
    /\ UNCHANGED << m_sentSamples, m_bwSamples, m_turnSamples,
                    m_previousVector, m_hasFirstTurndown, m_previousTurndown,
                    m_callback, m_sentMutex, m_buffMutex, l_pc, prev, diff,
                    previousTurndownDiff, detectedBytesPerSec, direction, vec,
                    turnAvg, ticks, invoked, exitCalls, drainAccepted, threadVars,
                    histVars >>

\* addBufferSizeSample (lines 163-169), bounded by the pending samples
WAddBuffer(v) ==
    /\ l_pc = "while"
    /\ Len(m_bufferSizeSamples) < MaxPending
    /\ m_bufferSizeSamples' = Append(m_bufferSizeSamples, v)
    /\ UNCHANGED << m_sentSamples, m_bwSamples, m_turnSamples,
                    m_previousVector, m_hasFirstTurndown, m_previousTurndown,
                    m_callback, m_sentMutex, m_buffMutex, l_pc, prev, diff,
                    previousTurndownDiff, detectedBytesPerSec, direction, vec,
                    turnAvg, ticks, calls, invoked, exitCalls, drainAccepted,
                    threadVars,
                    histVars >>

\* setThroughputCallback (lines 54-58)
ESetCallback ==
    /\ l_pc = "while"
    /\ m_callback = "null"
    /\ m_callback' = "cb"
    /\ UNCHANGED << m_sentSamples, m_bufferSizeSamples, m_bwSamples,
                    m_turnSamples, m_previousVector, m_hasFirstTurndown,
                    m_previousTurndown, m_sentMutex, m_buffMutex, l_pc, prev,
                    diff, previousTurndownDiff, detectedBytesPerSec, direction,
                    vec, turnAvg, ticks, calls, invoked, exitCalls,
                    drainAccepted,
                    threadVars, histVars >>

\* lines 65-146 of one iteration: the clock is read, both locks are taken
\* and the tick is computed
ETickCompute(maxTicks) ==
    /\ l_pc = "while"
    /\ ticks < maxTicks
    /\ ticks' = ticks + 1
    /\ diff' = prev
    /\ previousTurndownDiff' = WholeSeconds(m_previousTurndown)
    /\ prev' = 0
    /\ m_sentMutex' = Loop
    /\ m_buffMutex' = Loop
    /\ invoked' = << >>
    /\ UNCHANGED exitCalls
    /\ Compute(prev, WholeSeconds(m_previousTurndown))
    /\ l_pc' = "clear"
    /\ UNCHANGED << m_sentSamples, m_bufferSizeSamples, m_callback, calls,
                    threadVars, histVars >>

\* lines 147-160 of one iteration: the samples are cleared, the locks
\* released, the callback invoked, and the loop waits for dt
ETickFinish(dt) ==
    /\ l_pc = "clear"
    /\ m_sentSamples' = << >>
    /\ m_bufferSizeSamples' = << >>
    /\ m_sentMutex' = Free
    /\ m_buffMutex' = Free
    /\ Callback
    /\ Elapse(dt)
    /\ l_pc' = "while"
    /\ UNCHANGED << m_bwSamples, m_turnSamples, m_previousVector,
                    m_hasFirstTurndown, m_callback, diff, previousTurndownDiff,
                    detectedBytesPerSec, direction, vec, turnAvg, ticks,
                    calls, drainAccepted, threadVars, histVars >>

\* the waits of the engine model: the timeout after 5 s and a late wake-up
EngineWaits == {TickPeriod, TickPeriod + 1}

NextEngine ==
    \/ \E v \in SentValues : EAddSent(v)
    \/ \E v \in BufferValues : EAddBuffer(v)
    \/ ESetCallback
    \/ ETickCompute(MaxEngineTicks)
    \/ \E dt \in EngineWaits : ETickFinish(dt)

SpecEngine == InitEngine /\ [][NextEngine]_vars

\* the window model: many iterations, buffer samples only, punctual ticks
NextWindows ==
    \/ \E v \in BufferValues : WAddBuffer(v)
    \/ ETickCompute(MaxWindowTicks)
    \/ ETickFinish(TickPeriod)

SpecWindows == InitEngine /\ [][NextWindows]_vars

\* ------------------------------------------------- the threads, step by step
engineVars == << m_bwSamples, m_turnSamples, m_previousVector,
                 m_hasFirstTurndown, detectedBytesPerSec, direction, vec,
                 turnAvg, drainAccepted >>
sampleVars == << m_sentSamples, m_bufferSizeSamples >>
mutexVars == << m_sentMutex, m_buffMutex >>
clockVars == << prev, m_previousTurndown, diff, previousTurndownDiff >>
producerVars == << p_pc, p_kind, p_arg >>

\* a thread enters addSentBytesSample or addBufferSizeSample (lines 164, 171)
\* with argument v.  The calling threads are interchangeable: a call is
\* made by the first thread that is not inside a call.
ProducerCall(p, kind, v) ==
    /\ p_pc[p] = "idle"
    /\ \A q \in Producers : q < p => p_pc[q] # "idle"
    /\ d_pc = "idle"
    /\ calls < MaxCalls
    /\ calls' = calls + 1
    /\ p_pc' = [p_pc EXCEPT ![p] = "lock"]
    /\ p_kind' = [p_kind EXCEPT ![p] = kind]
    /\ p_arg' = [p_arg EXCEPT ![p] = v]
    /\ UNCHANGED << engineVars, sampleVars, mutexVars, clockVars, histVars,
                    m_exiting, m_callback, l_pc, notified, d_pc, ticks,
                    invoked, exitCalls >>

\* m_buffMutex.lock() / m_sentMutex.lock() (lines 166, 173)
ProducerLock(p) ==
    /\ p_pc[p] = "lock"
    /\ IF p_kind[p] = "sent"
       THEN /\ m_sentMutex = Free
            /\ m_sentMutex' = Producer(p)
            /\ UNCHANGED m_buffMutex
       ELSE /\ m_buffMutex = Free
            /\ m_buffMutex' = Producer(p)
            /\ UNCHANGED m_sentMutex
    /\ p_pc' = [p_pc EXCEPT ![p] = "push"]
    /\ UNCHANGED << engineVars, sampleVars, clockVars, histVars, m_exiting,
                    m_callback, l_pc, notified, d_pc, p_kind, p_arg, ticks,
                    calls, invoked, exitCalls >>

\* mutant: the producer returns without unlock()
ProducerPushNoUnlock(p) ==
    /\ p_pc[p] = "push"
    /\ IF p_kind[p] = "sent"
       THEN /\ m_sentSamples' = Append(m_sentSamples, p_arg[p])
            /\ sentHist' = Append(sentHist, p_arg[p])
            /\ UNCHANGED << m_bufferSizeSamples, buffHist >>
       ELSE /\ m_bufferSizeSamples' = Append(m_bufferSizeSamples, p_arg[p])
            /\ buffHist' = Append(buffHist, p_arg[p])
            /\ UNCHANGED << m_sentSamples, sentHist >>
    /\ p_pc' = [p_pc EXCEPT ![p] = "idle"]
    /\ p_kind' = [p_kind EXCEPT ![p] = "sent"]
    /\ p_arg' = [p_arg EXCEPT ![p] = 0]
    /\ UNCHANGED << engineVars, mutexVars, clockVars, sentSeen, buffSeen,
                    m_exiting, m_callback, l_pc, notified, d_pc, ticks, calls,
                    invoked, exitCalls >>

\* push_back and unlock (lines 167-168, 174-175)
ProducerPush(p) ==
    /\ p_pc[p] = "push"
    /\ IF p_kind[p] = "sent"
       THEN /\ m_sentSamples' = Append(m_sentSamples, p_arg[p])
            /\ sentHist' = Append(sentHist, p_arg[p])
            /\ m_sentMutex' = Free
            /\ UNCHANGED << m_bufferSizeSamples, buffHist, m_buffMutex >>
       ELSE /\ m_bufferSizeSamples' = Append(m_bufferSizeSamples, p_arg[p])
            /\ buffHist' = Append(buffHist, p_arg[p])
            /\ m_buffMutex' = Free
            /\ UNCHANGED << m_sentSamples, sentHist, m_sentMutex >>
    /\ p_pc' = [p_pc EXCEPT ![p] = "idle"]
    /\ p_kind' = [p_kind EXCEPT ![p] = "sent"]
    /\ p_arg' = [p_arg EXCEPT ![p] = 0]
    /\ UNCHANGED << engineVars, clockVars, sentSeen, buffSeen, m_exiting,
                    m_callback, l_pc, notified, d_pc, ticks, calls, invoked, exitCalls >>

\* setThroughputCallback (lines 54-58)
SetThroughputCallback ==
    /\ d_pc = "idle"
    /\ m_callback = "null"
    /\ m_callback' = "cb"
    /\ UNCHANGED << engineVars, sampleVars, mutexVars, clockVars, histVars,
                    producerVars, m_exiting, l_pc, notified, d_pc, ticks,
                    calls, invoked, exitCalls >>

\* while(!m_exiting) and lines 66-71
LoopWhile ==
    /\ l_pc = "while"
    /\ IF m_exiting
       THEN /\ l_pc' = "done"
            /\ UNCHANGED << clockVars, ticks, invoked, exitCalls >>
       ELSE /\ ticks < MaxTicks
            /\ ticks' = ticks + 1
            /\ diff' = prev
            /\ previousTurndownDiff' = WholeSeconds(m_previousTurndown)
            /\ prev' = 0
            /\ invoked' = << >>
            /\ l_pc' = "lockSent"
            /\ UNCHANGED << m_previousTurndown, exitCalls >>
    /\ UNCHANGED << engineVars, sampleVars, mutexVars, histVars, producerVars,
                    m_exiting, m_callback, notified, d_pc, calls >>

\* m_sentMutex.lock() (line 72)
LoopLockSent ==
    /\ l_pc = "lockSent"
    /\ m_sentMutex = Free
    /\ m_sentMutex' = Loop
    /\ l_pc' = "lockBuff"
    /\ UNCHANGED << engineVars, sampleVars, clockVars, histVars, producerVars,
                    m_buffMutex, m_exiting, m_callback, notified, d_pc, ticks,
                    calls, invoked, exitCalls >>

\* m_buffMutex.lock() (line 73)
LoopLockBuff ==
    /\ l_pc = "lockBuff"
    /\ m_buffMutex = Free
    /\ m_buffMutex' = Loop
    /\ l_pc' = "compute"
    /\ UNCHANGED << engineVars, sampleVars, clockVars, histVars, producerVars,
                    m_sentMutex, m_exiting, m_callback, notified, d_pc, ticks,
                    calls, invoked, exitCalls >>

\* lines 75-146
LoopCompute ==
    /\ l_pc = "compute"
    /\ Compute(diff, previousTurndownDiff)
    /\ sentSeen' = sentSeen \o m_sentSamples
    /\ buffSeen' = buffSeen \o m_bufferSizeSamples
    /\ l_pc' = "clear"
    /\ UNCHANGED << sampleVars, mutexVars, prev, diff, previousTurndownDiff,
                    sentHist, buffHist, producerVars, m_exiting, m_callback,
                    notified, d_pc, ticks, calls, invoked, exitCalls >>

\* mutant: m_bufferSizeSamples is not cleared
LoopClearSentOnly ==
    /\ l_pc = "clear"
    /\ m_sentSamples' = << >>
    /\ l_pc' = "unlockSent"
    /\ UNCHANGED << engineVars, mutexVars, clockVars, histVars, producerVars,
                    m_bufferSizeSamples, m_exiting, m_callback, notified, d_pc,
                    ticks, calls, invoked, exitCalls >>

\* lines 147-148
LoopClear ==
    /\ l_pc = "clear"
    /\ m_sentSamples' = << >>
    /\ m_bufferSizeSamples' = << >>
    /\ l_pc' = "unlockSent"
    /\ UNCHANGED << engineVars, mutexVars, clockVars, histVars, producerVars,
                    m_exiting, m_callback, notified, d_pc, ticks, calls,
                    invoked, exitCalls >>

\* m_sentMutex.unlock() (line 149)
LoopUnlockSent ==
    /\ l_pc = "unlockSent"
    /\ m_sentMutex' = Free
    /\ l_pc' = "unlockBuff"
    /\ UNCHANGED << engineVars, sampleVars, clockVars, histVars, producerVars,
                    m_buffMutex, m_exiting, m_callback, notified, d_pc, ticks,
                    calls, invoked, exitCalls >>

\* m_buffMutex.unlock() (line 150)
LoopUnlockBuff ==
    /\ l_pc = "unlockBuff"
    /\ m_buffMutex' = Free
    /\ l_pc' = "callback"
    /\ UNCHANGED << engineVars, sampleVars, clockVars, histVars, producerVars,
                    m_sentMutex, m_exiting, m_callback, notified, d_pc, ticks,
                    calls, invoked, exitCalls >>

\* lines 152-155
LoopCallback ==
    /\ l_pc = "callback"
    /\ Callback
    /\ l_pc' = "checkExit"
    /\ UNCHANGED << engineVars, sampleVars, mutexVars, clockVars, histVars,
                    producerVars, m_exiting, m_callback, notified, d_pc, ticks,
                    calls >>

\* if(!m_exiting) (line 157)
LoopCheckExit ==
    /\ l_pc = "checkExit"
    /\ l_pc' = IF m_exiting THEN "while" ELSE "enterWait"
    /\ UNCHANGED << engineVars, sampleVars, mutexVars, clockVars, histVars,
                    producerVars, m_exiting, m_callback, notified, d_pc, ticks,
                    calls, invoked, exitCalls >>

\* m_cond.wait_until(l, now + 5 s) is entered (line 159): the thread
\* becomes a waiter of m_cond
LoopEnterWait ==
    /\ l_pc = "enterWait"
    /\ l_pc' = "wait"
    /\ notified' = FALSE
    /\ UNCHANGED << engineVars, sampleVars, mutexVars, clockVars, histVars,
                    producerVars, m_exiting, m_callback, d_pc, ticks, calls,
                    invoked, exitCalls >>

\* mutant: a notified loop starts the next iteration without the test of
\* line 65
WaitNotifiedNoRecheck ==
    /\ l_pc = "wait"
    /\ notified
    /\ ticks < MaxTicks
    /\ ticks' = ticks + 1
    /\ diff' = prev
    /\ previousTurndownDiff' = WholeSeconds(m_previousTurndown)
    /\ prev' = 0
    /\ invoked' = << >>
    /\ l_pc' = "lockSent"
    /\ UNCHANGED << engineVars, sampleVars, mutexVars, histVars, producerVars,
                    m_previousTurndown, m_exiting, m_callback, notified, d_pc,
                    calls, exitCalls >>

\* wait_until returns because of m_cond.notify_all() (line 159)
WaitNotified ==
    /\ l_pc = "wait"
    /\ notified
    /\ l_pc' = "while"
    /\ UNCHANGED << engineVars, sampleVars, mutexVars, clockVars, histVars,
                    producerVars, m_exiting, m_callback, notified, d_pc, ticks,
                    calls, invoked, exitCalls >>

\* mutant: a wait without a deadline
WaitWithoutDeadline ==
    /\ l_pc = "wait"
    /\ FALSE
    /\ UNCHANGED vars

\* wait_until returns without a notification (line 159): at its deadline,
\* now + 5 s.  A spurious return differs only in the time that has passed.
WaitTimeout ==
    /\ l_pc = "wait"
    /\ Elapse(TickPeriod)
    /\ l_pc' = "while"
    /\ UNCHANGED << engineVars, sampleVars, mutexVars, diff,
                    previousTurndownDiff, histVars, producerVars, m_exiting,
                    m_callback, notified, d_pc, ticks, calls, invoked, exitCalls >>

\* m_exiting = true (line 49)
DtorSetExiting ==
    /\ d_pc = "idle"
    /\ m_exiting' = TRUE
    /\ d_pc' = "notify"
    /\ UNCHANGED << engineVars, sampleVars, mutexVars, clockVars, histVars,
                    producerVars, m_callback, l_pc, notified, ticks, calls,
                    invoked, exitCalls >>

\* m_cond.notify_all() (line 50): wakes the loop if it is waiting
DtorNotify ==
    /\ d_pc = "notify"
    /\ notified' = (notified \/ l_pc = "wait")
    /\ d_pc' = "join"
    /\ UNCHANGED << engineVars, sampleVars, mutexVars, clockVars, histVars,
                    producerVars, m_exiting, m_callback, l_pc, ticks, calls,
                    invoked, exitCalls >>

\* mutant: the destructor does not wait for the thread
DtorDetach ==
    /\ d_pc = "join"
    /\ d_pc' = "returned"
    /\ UNCHANGED << engineVars, sampleVars, mutexVars, clockVars, histVars,
                    producerVars, m_exiting, m_callback, l_pc, notified, ticks,
                    calls, invoked, exitCalls >>

\* m_thread.join() (line 51) returns when sampleThread has returned
DtorJoin ==
    /\ d_pc = "join"
    /\ l_pc = "done"
    /\ d_pc' = "returned"
    /\ UNCHANGED << engineVars, sampleVars, mutexVars, clockVars, histVars,
                    producerVars, m_exiting, m_callback, l_pc, notified, ticks,
                    calls, invoked, exitCalls >>

LoopStep ==
    \/ LoopWhile
    \/ LoopLockSent
    \/ LoopLockBuff
    \/ LoopCompute
    \/ LoopClear
    \/ LoopUnlockSent
    \/ LoopUnlockBuff
    \/ LoopCallback
    \/ LoopCheckExit
    \/ LoopEnterWait

\* the steps of the loop that do not block
LoopRun ==
    \/ LoopWhile
    \/ LoopCompute
    \/ LoopClear
    \/ LoopUnlockSent
    \/ LoopUnlockBuff
    \/ LoopCallback
    \/ LoopCheckExit
    \/ LoopEnterWait

Next ==
    \/ \E p \in Producers : ProducerCall(p, "sent", calls + 1)
    \/ \E p \in Producers : ProducerCall(p, "buff", calls + 1)
    \/ \E p \in Producers : ProducerLock(p)
    \/ \E p \in Producers : ProducerPush(p)
    \/ SetThroughputCallback
    \/ LoopStep
    \/ WaitNotified
    \/ WaitTimeout
    \/ DtorSetExiting
    \/ DtorNotify
    \/ DtorJoin

Spec == Init /\ [][Next]_vars

\* the two lock() calls of the loop
LoopLock == LoopLockSent \/ LoopLockBuff

\* scheduling: the loop thread and the destructor's thread take their next
\* step when they can, the callback returns, a producer that holds a mutex
\* releases it, the loop gets a mutex that is free again and again, and
\* wait_until returns when notified or at its deadline
FairSpec ==
    /\ Spec
    /\ WF_vars(LoopRun)
    /\ SF_vars(LoopLock)
    /\ WF_vars(WaitNotified \/ WaitTimeout)
    /\ WF_vars(DtorNotify \/ DtorJoin)
    /\ \A p \in Producers : WF_vars(ProducerPush(p))

\* scheduling of the producers' lock() calls: in addition, a producer that
\* waits in lock() gets a mutex that stays free
FairLockSpec ==
    /\ FairSpec
    /\ \A p \in Producers : WF_vars(ProducerLock(p))

\* ================================================================ claims
\* the iteration has computed its tick and not yet cleared the samples
Computed == l_pc = "clear"
\* the step in which an iteration computes its tick
TickComputed == l_pc # "clear" /\ l_pc' = "clear"
HasBuffer == m_bufferSizeSamples # << >>

C3_FirstDrainAlways ==
    [][ ( /\ TickComputed
          /\ HasBuffer
          /\ Back(m_bufferSizeSamples) = 0
          /\ ~drainAccepted )
        => direction' = 1 ]_vars

\* C3 amended: a tick with last reading 0 before which no filling tick has
\* occurred (m_hasFirstTurndown is false) has direction +1
C3_FirstDrain ==
    ( /\ Computed
      /\ HasBuffer
      /\ Back(m_bufferSizeSamples) = 0
      /\ ~m_hasFirstTurndown )
    => direction = 1

C3_Witness ==
    /\ Computed
    /\ HasBuffer
    /\ Back(m_bufferSizeSamples) = 0
    /\ ~m_hasFirstTurndown
    /\ direction = 1
    /\ ticks > 1

\* the tick of scenario C: the previous iteration was filling and emitted
\* -1.0 with an empty TurnWindow, one tick period has passed, and the
\* readings drain to 0 with no drain accepted before
ReversalTick ==
    /\ TickComputed
    /\ direction = -1
    /\ vec = -10
    /\ m_turnSamples = << >>
    /\ diff' = TickPeriod
    /\ HasBuffer
    /\ Front(m_bufferSizeSamples) > 0
    /\ Back(m_bufferSizeSamples) = 0
    /\ ~drainAccepted

\* C4 as stated: the reversal tick classifies +1, pushes the front
\* bandwidth-window value onto TurnWindow and emits +1.0
C4_ReversalEmitsOne ==
    [][ ReversalTick
        => ( /\ direction' = 1
             /\ m_turnSamples' = << Front(m_bwSamples') >>
             /\ vec' = 10 ) ]_vars

\* C4 amended: the reversal tick classifies 0 (the empty reading falls in
\* the 10 seconds after the filling tick), pushes the front bandwidth-window
\* value onto TurnWindow, which is therefore not empty in the synthesis, and
\* emits 0 with that value as pivot average
C4_Reversal ==
    [][ ReversalTick
        => ( /\ direction' = 0
             /\ m_turnSamples' = << Front(m_bwSamples') >>
             /\ turnAvg' = Front(m_bwSamples')
             /\ vec' = 0 ) ]_vars

C4_Witness ==
    /\ Computed
    /\ diff = TickPeriod
    /\ HasBuffer
    /\ Front(m_bufferSizeSamples) > 0
    /\ Back(m_bufferSizeSamples) = 0
    /\ m_hasFirstTurndown
    /\ previousTurndownDiff = TickPeriodSeconds
    /\ ~drainAccepted
    /\ Len(m_turnSamples) = 1
    /\ m_turnSamples[1] = detectedBytesPerSec
    /\ direction = 0
    /\ vec = 0

\* C5: a tick whose last reading exceeds its first has direction -1, sets
\* m_hasFirstTurndown and sets m_previousTurndown to the tick's time
C5_Filling ==
    ( /\ Computed
      /\ HasBuffer
      /\ Back(m_bufferSizeSamples) > Front(m_bufferSizeSamples) )
    => ( /\ direction = -1
         /\ vec < 0
         /\ m_hasFirstTurndown
         /\ m_previousTurndown = 0 )

C5_Witness ==
    /\ Computed
    /\ HasBuffer
    /\ Back(m_bufferSizeSamples) > Front(m_bufferSizeSamples)
    /\ Front(m_bufferSizeSamples) = 0
    /\ drainAccepted
    /\ previousTurndownDiff > DebounceSeconds
    /\ direction = -1

\* C6: BandwidthWindow never holds more than 30 entries and TurnWindow never
\* more than 5
C6_BoundedWindows ==
    /\ Len(m_bwSamples) <= m_bwSampleCount
    /\ Len(m_turnSamples) <= kPivotSamples

\* both windows are full after more than 30 ticks, and this tick fired both
\* pivot triggers: the filling tick was one period ago and the buffer shrank
\* without emptying
C6_Witness ==
    /\ Computed
    /\ ticks > m_bwSampleCount
    /\ Len(m_bwSamples) = m_bwSampleCount
    /\ Len(m_turnSamples) = kPivotSamples
    /\ HasBuffer
    /\ BufferDelta(m_bufferSizeSamples) < 0
    /\ Back(m_bufferSizeSamples) > 0
    /\ m_hasFirstTurndown
    /\ previousTurndownDiff = TickPeriodSeconds

\* the samples of s no tick has read yet: a tick reads the pending samples
\* when it computes and clears them in its next step
Unread(s) == IF l_pc = "clear" THEN << >> ELSE s

\* s ends with t
EndsWith(s, t) ==
    /\ Len(t) <= Len(s)
    /\ SubSeq(s, Len(s) - Len(t) + 1, Len(s)) = t

\* C1: the samples appended so far are, in the order of their appends, the
\* samples read by the ticks so far followed by the pending samples no tick
\* has read; what a tick is about to clear is what it has just read
C1_ExactlyOnce ==
    /\ sentHist = sentSeen \o Unread(m_sentSamples)
    /\ buffHist = buffSeen \o Unread(m_bufferSizeSamples)
    /\ Computed => /\ EndsWith(sentSeen, m_sentSamples)
                   /\ EndsWith(buffSeen, m_bufferSizeSamples)

\* the second tick has read the sample that was appended after the first
\* tick had read and cleared its own
C1_Witness ==
    /\ Computed
    /\ ticks = 2
    /\ Len(buffSeen) = 2
    /\ Len(m_bufferSizeSamples) = 1
    /\ buffSeen = buffHist

\* C7: the destructor has returned only if sampleThread has returned, and
\* once sampleThread has returned the loop touches nothing
C7_ShutdownJoin ==
    /\ [](d_pc = "returned" => l_pc = "done")
    /\ [][ l_pc = "done"
           => ( /\ l_pc' = "done"
                /\ UNCHANGED << engineVars, invoked, ticks, sentSeen, buffSeen >>
                /\ m_sentMutex' # Loop
                /\ m_buffMutex' # Loop ) ]_vars

\* the destructor has returned after a tick that was in flight at shutdown
\* has invoked the callback
C7_Witness ==
    /\ d_pc = "returned"
    /\ l_pc = "done"
    /\ ticks > 0
    /\ invoked # << >>

\* C8 as stated: once the destructor has set m_exiting and called
\* notify_all, the loop is not blocked in wait_until without a pending
\* notification, i.e. with nothing but the deadline to wake it
C8_ImmediateInterruption ==
    ~ ( /\ d_pc = "join"
        /\ m_exiting
        /\ l_pc = "wait"
        /\ ~notified )

\* C9: once the destructor has been entered, sampleThread eventually returns
\* and the destructor eventually returns
C9_TeardownTerminates ==
    (d_pc # "idle") ~> (l_pc = "done" /\ d_pc = "returned")

C9_Witness ==
    /\ d_pc = "returned"
    /\ l_pc = "done"
    /\ ticks = MaxTicks

\* C10 as stated: no addSentBytesSample call waits for m_sentMutex while the
\* loop holds it and is itself waiting for m_buffMutex, held by a caller of
\* addBufferSizeSample
C10_IndependentLocking ==
    ~ \E p \in Producers : \E q \in Producers :
        /\ p_pc[p] = "lock"
        /\ p_kind[p] = "sent"
        /\ m_sentMutex = Loop
        /\ l_pc = "lockBuff"
        /\ m_buffMutex = Producer(q)

\* the step in which an iteration passes lines 152-155
CallbackStep == l_pc = "callback" /\ l_pc' = "checkExit"

\* C11: an iteration passes the callback point once, after it has released
\* both mutexes; there it invokes the registered callback with this tick's
\* vec and turnAvg and invokes nothing when none is registered; nothing else
\* invokes the callback, and the result of an iteration is forgotten only
\* when the next one starts
C11_CallbackProtocol ==
    [][ /\ CallbackStep
           => /\ m_sentMutex # Loop
              /\ m_buffMutex # Loop
              /\ invoked = << >>
              /\ m_callback = "cb" => invoked' = << vec, turnAvg >>
              /\ m_callback = "null" => invoked' = << >>
        /\ invoked' # invoked
           => \/ CallbackStep
              \/ l_pc = "while" /\ l_pc' = "lockSent" /\ invoked' = << >> ]_vars

\* the second tick has invoked the registered callback with its values, which
\* differ from the first tick's
C11_Witness ==
    /\ l_pc = "checkExit"
    /\ ticks = 2
    /\ m_callback = "cb"
    /\ invoked = << vec, turnAvg >>
    /\ vec # 0
    /\ m_sentMutex # Loop
    /\ m_buffMutex # Loop

\* C12: the vector of every tick lies in [-1.0, 1.0] (-10 .. 10 tenths), has
\* the sign of the classified direction, is 0 exactly when the direction is
\* 0, has magnitude at least 0.1 when the direction is not 0, and magnitude
\* exactly 1 when TurnWindow is empty at the synthesis
C12_BoundedSignedOutput ==
    Computed
    => /\ vec \in -10 .. 10
       /\ direction \in {-1, 0, 1}
       /\ (vec = 0) <=> (direction = 0)
       /\ direction = 1 => vec >= 1
       /\ direction = -1 => vec <= -1
       /\ m_turnSamples = << >> => vec = 10 * direction
       /\ HasBuffer => m_previousVector = vec

\* a drain is scaled down to the floor of 0.1: the throughput of this tick
\* is close to the weighted average, far below the pivot average
C12_Witness ==
    /\ Computed
    /\ HasBuffer
    /\ m_turnSamples # << >>
    /\ turnAvg > 0
    /\ detectedBytesPerSec >= 0
    /\ direction = 1
    /\ vec = 1

\* C13: when TurnWindow is empty at the synthesis the vector is the raw
\* direction, unscaled; the first tick of an instance to which no sample has
\* been added emits 0
C13_ColdStart ==
    Computed
    => /\ m_turnSamples = << >> => /\ vec = 10 * direction
                                   /\ turnAvg = 0
       /\ (ticks = 1 /\ m_sentSamples = << >> /\ m_bufferSizeSamples = << >>)
          => (vec = 0 /\ turnAvg = 0)

\* a filling tick after the first tick, with no pivot recorded, emits -1.0
C13_Witness ==
    /\ Computed
    /\ ticks > 1
    /\ HasBuffer
    /\ m_turnSamples = << >>
    /\ direction = -1
    /\ vec = -10

AllZero(s) == \A i \in 1 .. Len(s) : s[i] = 0

\* the tick computed in this step gives what a tick with no pending sample
\* gives from the same state after the same elapsed time
SameAsEmptyTick ==
    /\ detectedBytesPerSec' = Divide(SumSeq(<< >>), diff')
    /\ m_bwSamples' = PushFront(m_bwSamples, Divide(SumSeq(<< >>), diff'),
                                m_bwSampleCount)
    /\ vec' = 0
    /\ turnAvg' = 0
    /\ UNCHANGED << m_turnSamples, m_previousVector, m_hasFirstTurndown,
                    m_previousTurndown >>

\* C14 as stated: a tick preceded only by addSentBytesSample(0) and
\* addBufferSizeSample(0) calls gives the output and leaves the state of a
\* tick preceded by no call
C14_NoOpInputs ==
    [][ ( /\ TickComputed
          /\ AllZero(m_sentSamples)
          /\ AllZero(m_bufferSizeSamples) )
        => SameAsEmptyTick ]_vars

\* C14 amended: a tick preceded only by addSentBytesSample(0) calls gives the
\* output and leaves the state of a tick preceded by no call
C14_NoOpSentInputs ==
    [][ ( /\ TickComputed
          /\ AllZero(m_sentSamples)
          /\ ~HasBuffer )
        => SameAsEmptyTick ]_vars

\* a tick that read two zero sent-byte samples and no buffer sample, in a
\* state a filling tick has left
C14_Witness ==
    /\ Computed
    /\ Len(m_sentSamples) = 2
    /\ AllZero(m_sentSamples)
    /\ ~HasBuffer
    /\ m_previousVector < 0
    /\ m_hasFirstTurndown
    /\ vec = 0
    /\ Len(m_bwSamples) = 2

\* C15 as stated: a tick with no buffer sample, after some tick that had
\* buffer samples (here: one that accepted a drain or was filling), delivers
\* the vec and turnAvg of the previous tick
C15_CarryOver ==
    [][ ( /\ TickComputed
          /\ ~HasBuffer
          /\ ticks >= 1
          /\ (drainAccepted \/ m_hasFirstTurndown) )
        => (vec' = vec /\ turnAvg' = turnAvg) ]_vars

\* C16: a tick without buffer samples leaves m_previousVector,
\* m_hasFirstTurndown, m_previousTurndown and m_turnSamples unchanged; it
\* pushes one value at the front of m_bwSamples and then clears the two
\* pending sequences, changing nothing else of the engine
C16_EmptyTickFrame ==
    [][ /\ (TickComputed /\ ~HasBuffer)
           => /\ UNCHANGED << m_previousVector, m_hasFirstTurndown,
                              m_previousTurndown, m_turnSamples >>
              /\ m_bwSamples' = PushFront(m_bwSamples, detectedBytesPerSec',
                                          m_bwSampleCount)
              /\ Front(m_bwSamples') = detectedBytesPerSec'
              /\ UNCHANGED << m_sentSamples, m_bufferSizeSamples >>
        /\ (l_pc = "clear" /\ l_pc' # "clear" /\ ~HasBuffer)
           => /\ m_sentSamples' = << >>
              /\ m_bufferSizeSamples' = << >>
              /\ UNCHANGED << m_previousVector, m_hasFirstTurndown,
                              m_turnSamples, m_bwSamples >> ]_vars

\* a tick without buffer samples in a state earlier ticks have left: a pivot
\* recorded, a filling tick as the previous one
C16_Witness ==
    /\ Computed
    /\ ~HasBuffer
    /\ ticks = 3
    /\ m_previousVector < 0
    /\ m_hasFirstTurndown
    /\ m_turnSamples # << >>
    /\ Len(m_bwSamples) = 3

\* the first n entries of s, or all of s when it is shorter
Prefix(s, n) == SubSeq(s, 1, Min(Len(s), n))

\* C17: on a tick with buffer samples TurnWindow gets the front
\* bandwidth-window value at its front iff the previous vector was negative
\* and the direction of this tick is not, and the throughput of this tick at
\* its front iff the last reading is below the first and above 0; the
\* triggers are independent, the window keeps its 5 most recent entries, and
\* nothing else changes it
C17_PivotMaintenance ==
    [][ /\ (TickComputed /\ HasBuffer)
           => LET buf    == m_bufferSizeSamples
                  first  == IF m_previousVector < 0 /\ direction' >= 0
                            THEN << Front(m_bwSamples') >> ELSE << >>
                  second == IF Back(buf) < Front(buf) /\ Back(buf) > 0
                            THEN << detectedBytesPerSec' >> ELSE << >>
              IN  m_turnSamples' =
                     Prefix(second \o first \o m_turnSamples, kPivotSamples)
        /\ m_turnSamples' # m_turnSamples => (TickComputed /\ HasBuffer) ]_vars

\* both triggers have fired and the window holds 5 entries: the tick one
\* period after a filling tick has a shrinking, non-empty buffer, and the
\* two front entries are the throughput of this tick
C17_Witness ==
    /\ Computed
    /\ ticks > 2 * kPivotSamples
    /\ ticks < m_bwSampleCount
    /\ HasBuffer
    /\ Back(m_bufferSizeSamples) < Front(m_bufferSizeSamples)
    /\ Back(m_bufferSizeSamples) > 0
    /\ m_hasFirstTurndown
    /\ previousTurndownDiff = TickPeriodSeconds
    /\ direction = 0
    /\ Len(m_turnSamples) = kPivotSamples
    /\ m_turnSamples[1] = detectedBytesPerSec
    /\ m_turnSamples[2] = detectedBytesPerSec

\* C18 as stated: the loop holds neither mutex while it computes the tick
\* (lines 75-146: bandwidth window, classification, pivot window, magnitude)
C18_ShortCriticalSection ==
    l_pc = "compute" => (m_sentMutex # Loop /\ m_buffMutex # Loop)

\* C19: a loop that leaves the wait goes to the test of line 65 and touches
\* nothing before it; with m_exiting set the test ends the loop without a
\* drain, a state update or a callback; no iteration starts with m_exiting
\* set; and at most one callback invocation begins after m_exiting was set
C19_NoTickAfterCancellation ==
    /\ [](exitCalls <= 1)
    /\ [][ /\ (l_pc = "wait" /\ l_pc' # "wait")
              => /\ l_pc' = "while"
                 /\ UNCHANGED << engineVars, sampleVars, mutexVars, invoked >>
           /\ (l_pc = "while" /\ m_exiting /\ l_pc' # "while")
              => /\ l_pc' = "done"
                 /\ UNCHANGED << engineVars, sampleVars, mutexVars, invoked,
                                 ticks >>
           /\ (l_pc # "lockSent" /\ l_pc' = "lockSent") => ~m_exiting ]_vars

\* the tick in progress when m_exiting was set has invoked the callback, and
\* the loop and the destructor have returned
C19_Witness ==
    /\ exitCalls = 1
    /\ invoked # << >>
    /\ l_pc = "done"
    /\ d_pc = "returned"

\* a thread that holds a mutex is not waiting for a mutex, except the loop
\* between its two lock() calls, which then waits for m_buffMutex only
LockHoldersRun ==
    /\ \A p \in Producers :
          /\ m_sentMutex = Producer(p) => (p_pc[p] = "push" /\ p_kind[p] = "sent")
          /\ m_buffMutex = Producer(p) => (p_pc[p] = "push" /\ p_kind[p] = "buff")
    /\ m_buffMutex = Loop
          => l_pc \in {"compute", "clear", "unlockSent", "unlockBuff"}
    /\ m_sentMutex = Loop
          => l_pc \in {"lockBuff", "compute", "clear", "unlockSent"}

\* C20: there is no cycle of lock waits (a producer holds one mutex and waits
\* for none; the loop waits for m_buffMutex only while holding m_sentMutex,
\* and never for m_sentMutex while holding m_buffMutex), every call of a
\* producer returns (a producer is outside a call again and again) and every
\* tick that has started gets both mutexes (the loop is past its lock()
\* calls again and again)
C20_DeadlockFreedom ==
    /\ []LockHoldersRun
    /\ \A p \in Producers : []<>(p_pc[p] = "idle")
    /\ []<>(l_pc \notin {"lockSent", "lockBuff"})

\* the second tick computes under both mutexes after both producers' calls
\* have returned, one of which had to wait for the loop
C20_Witness ==
    /\ l_pc = "compute"
    /\ ticks = 2
    /\ m_sentMutex = Loop
    /\ m_buffMutex = Loop
    /\ calls = MaxCalls
    /\ \A p \in Producers : p_pc[p] = "idle"
    /\ sentSeen # << >>
    /\ m_bufferSizeSamples # << >>

====
